---- MODULE Spec2Model ----
(***************************************************************************)
(* Model of src/notion_mcp/server.py: the six tool handlers and the        *)
(* recent-pages resource of the Notion MCP server.                         *)
(*                                                                         *)
(* One invocation at a time is followed from its call to its return.  A    *)
(* handler runs up to its next remote client call, the remote service      *)
(* answers (returns a response or raises), and the handler runs on.  The   *)
(* remote client is the environment: every answer it may give is chosen    *)
(* nondeterministically.                                                   *)
(*                                                                         *)
(* Python values: a dict is a function with a string domain, a list is a   *)
(* sequence, a str is a string, an Optional value is None (<<>>) or        *)
(* Some(x) (<<x>>).                                                        *)
(***************************************************************************)
EXTENDS Integers, Sequences, FiniteSets, TLC

VARIABLES pc, handler, args, calls, responses, outcome

vars == <<pc, handler, args, calls, responses, outcome>>

-----------------------------------------------------------------------------
(* Bounds of the model.                                                    *)

\* the longest result list a search response holds
MaxResults == 2
\* the longest child-block list a block-listing response holds
MaxBlocks == 3
\* page_size arguments are drawn from 1..MaxPageSize
MaxPageSize == 2

-----------------------------------------------------------------------------
(* Python values.                                                          *)

None == <<>>
Some(x) == <<x>>
EmptyDict == <<>>

\* d.get(k): the value wrapped as an Optional
Get(d, k) == IF k \in DOMAIN d THEN Some(d[k]) ELSE None

\* d.get(k, default)
GetOr(d, k, default) == IF k \in DOMAIN d THEN d[k] ELSE default

\* the truth value of d.get(k) when d[k] is a list
GetTruthy(d, k) == k \in DOMAIN d /\ d[k] # <<>>

StartsWith(s, prefix) ==
    Len(s) >= Len(prefix) /\ SubSeq(s, 1, Len(prefix)) = prefix

Contains(s, sub) ==
    \E i \in 1..(Len(s) - Len(sub) + 1) : SubSeq(s, i, i + Len(sub) - 1) = sub

\* how a piece of Python code ends: it returns a value or raises
Return_(v) == [kind |-> "return", value |-> v]
Raise(class, msg) == [kind |-> "raise", exc |-> [class |-> class, msg |-> msg]]

\* all sequences over S of length at most n
SeqUpTo(S, n) == UNION {[1..k -> S] : k \in 0..n}

-----------------------------------------------------------------------------
(* What the remote service may hold and answer.                            *)

\* rich-text fragments; one lacks the plain_text key
FragA == [type |-> "text", plain_text |-> "A"]
FragB == [type |-> "text", plain_text |-> "B"]
FragEmpty == [type |-> "text", plain_text |-> ""]
FragNoPlain == [type |-> "text"]

\* title sequences of a title-typed property
TitleSeqs == {<<>>, <<FragA, FragB>>, <<FragB>>, <<FragNoPlain>>}

\* property descriptors: title-typed ones and one of another type
TitleProp(frags) == [id |-> "title", type |-> "title", title |-> frags]
OtherProp == [id |-> "x", type |-> "rich_text", rich_text |-> <<>>]
PropDescriptors == {TitleProp(f) : f \in TitleSeqs} \cup {OtherProp}

PropNames == {"title", "Name"}

\* a properties mapping, in mapping order: a sequence of <<name, descriptor>>
\* entries with distinct names
PropertyMaps ==
    {<<>>}
    \cup {<<e>> : e \in PropNames \X PropDescriptors}
    \cup {<<e1, e2>> : <<e1, e2>> \in
            {p \in (PropNames \X PropDescriptors) \X (PropNames \X PropDescriptors) :
                p[1][1] # p[2][1]}}

Url(id) == "https://www.notion.so/" \o id

\* page objects: with a properties mapping, and without one
PageWith(id, props) ==
    [object |-> "page", id |-> id, url |-> Url(id),
     last_edited_time |-> "2024-01-01", properties |-> props]
PageBare(id) == [object |-> "page", id |-> id, url |-> Url(id)]

PageObjects == {PageWith("p1", m) : m \in PropertyMaps} \cup {PageBare("p2")}

\* rich_text sequences of a text block
RichTexts == {<<>>, <<FragEmpty>>, <<FragA>>, <<FragA, FragB>>,
              <<FragNoPlain>>, <<FragEmpty, FragNoPlain>>}

\* child blocks: text blocks, a block whose sub-object has no rich_text, a
\* block without its type-named sub-object, a block without a type
BlockObjects ==
    {[object |-> "block", type |-> "paragraph", paragraph |-> [rich_text |-> r]] :
        r \in RichTexts}
    \cup {[object |-> "block", type |-> "heading_1",
           heading_1 |-> [rich_text |-> <<FragB>>]],
          [object |-> "block", type |-> "divider", divider |-> [color |-> "default"]],
          [object |-> "block", type |-> "unsupported"],
          [object |-> "block"]}

ErrorDetails == {"Could not find page", ""}

\* the ways a remote call may fail: the typed remote-service error, or any
\* other exception (a network fault)
RemoteFailures ==
    {Raise("APIResponseError", m) : m \in ErrorDetails}
    \cup {Raise("Exception", "Request timed out")}

\* the answers of a remote call: its responses, or a failure
Answers(values) == {Return_(v) : v \in values} \cup RemoteFailures

\* search responses as search_pages and get_recent_pages may receive them: any
\* result list (the service is not assumed to honour page_size), or a
\* response without a results key
SearchResponses ==
    {[object |-> "list", results |-> rs] : rs \in SeqUpTo(PageObjects, MaxResults)}
    \cup {[object |-> "list"]}

\* search responses of create_page's fallback search, which reads nothing of
\* a hit but its id
ParentCandidates == {PageWith("p1", <<>>), PageBare("p2")}
FallbackSearchResponses ==
    {[object |-> "list", results |-> rs] : rs \in SeqUpTo(ParentCandidates, MaxResults)}
    \cup {[object |-> "list"]}

\* the page object pages.create and pages.update answer with
CreatedPages == {PageWith("p9", <<<<"title", TitleProp(<<FragA>>)>>>>)}

BlockListResponses ==
    {[object |-> "list", results |-> bs] : bs \in SeqUpTo(BlockObjects, MaxBlocks)}
    \cup {[object |-> "list"]}

AppendResponses == {[object |-> "list", results |-> <<>>]}

\* the answers of each remote call
SearchResponsesAnswers == Answers(SearchResponses)
FallbackSearchResponsesAnswers == Answers(FallbackSearchResponses)
CreatedPagesAnswers == Answers(CreatedPages)
PageObjectsAnswers == Answers(PageObjects)
BlockListResponsesAnswers == Answers(BlockListResponses)
AppendResponsesAnswers == Answers(AppendResponses)

-----------------------------------------------------------------------------
(* Argument values the protocol adapter may pass.                          *)

Titles == {"", "T"}
Contents == {"", "hello"}
PageIds == {"p1", "p2"}
Queries == {"notes"}
PageSizes == 1..MaxPageSize
OptionalParents == {None, Some(""), Some("p1")}
OptionalTitles == {None} \cup {Some(t) : t \in Titles}
OptionalFlags == {None, Some(TRUE), Some(FALSE)}
EntryProperties ==
    {EmptyDict, [Name |-> [title |-> <<[text |-> [content |-> "Task name"]]>>]]}

-----------------------------------------------------------------------------
(* Payload shapes.                                                         *)

\* the title property payload
title_property_payload(title) ==
    [title |-> [title |-> <<[text |-> [content |-> title]]>>]]

\* the paragraph block payload
paragraph_block(content) ==
    [object |-> "block", type |-> "paragraph",
     paragraph |-> [rich_text |-> <<[type |-> "text", text |-> [content |-> content]]>>]]

PageFilter == [property |-> "object", value |-> "page"]

Call(api, payload) == [api |-> api, payload |-> payload]

-----------------------------------------------------------------------------
(* Title and block-text extraction.                                        *)

HasKey(m, k) == \E i \in DOMAIN m : m[i][1] = k
Lookup(m, k) == m[CHOOSE i \in DOMAIN m : m[i][1] = k][2]

\* prop_value["title"][0]["plain_text"]
first_plain_text(prop_value) ==
    IF "plain_text" \in DOMAIN prop_value.title[1]
    THEN Return_(prop_value.title[1].plain_text)
    ELSE Raise("KeyError", "'plain_text'")

\* for prop_name, prop_value in page["properties"].items(): the first entry
\* typed "title" with a non-empty title list decides; otherwise "Untitled"
RECURSIVE scan_title(_)
scan_title(items) ==
    IF items = <<>> THEN Return_("Untitled")
    ELSE LET prop_value == Head(items)[2]
         IN  IF Get(prop_value, "type") = Some("title") /\ GetTruthy(prop_value, "title")
             THEN first_plain_text(prop_value)
             ELSE scan_title(Tail(items))

\* search_pages_title without the check that the title list is non-empty
search_pages_title_unchecked(page) ==
    IF "properties" \in DOMAIN page /\ HasKey(page.properties, "title")
    THEN LET title_property == Lookup(page.properties, "title")
         IN  IF "title" \in DOMAIN title_property
             THEN IF title_property.title = <<>>
                  THEN Raise("IndexError", "list index out of range")
                  ELSE first_plain_text(title_property)
             ELSE Return_("Untitled")
    ELSE IF "properties" \in DOMAIN page
         THEN scan_title(page.properties)
         ELSE Return_("Untitled")

\* the title search_pages gives a hit
search_pages_title(page) ==
    IF "properties" \in DOMAIN page /\ HasKey(page.properties, "title")
    THEN LET title_property == Lookup(page.properties, "title")
         IN  IF GetTruthy(title_property, "title")
             THEN first_plain_text(title_property)
             ELSE Return_("Untitled")
    ELSE IF "properties" \in DOMAIN page
         THEN scan_title(page.properties)
         ELSE Return_("Untitled")

\* get_page_content_title reading plain_text with a default, so that it never
\* raises
get_page_content_title_lenient(page) ==
    LET title == IF "properties" \in DOMAIN page
                 THEN scan_title(page.properties)
                 ELSE Return_("Untitled")
    IN  IF title.kind = "raise" THEN Return_("Untitled") ELSE title

\* the title get_page_content gives the page
get_page_content_title(page) ==
    IF "properties" \in DOMAIN page
    THEN scan_title(page.properties)
    ELSE Return_("Untitled")

\* the title get_recent_pages gives a hit
get_recent_pages_title(page) ==
    IF "properties" \in DOMAIN page
    THEN scan_title(page.properties)
    ELSE Return_("Untitled")

\* "".join([rt.get("plain_text", "") for rt in rich_text])
RECURSIVE join_plain_text(_)
join_plain_text(rich_text) ==
    IF rich_text = <<>> THEN ""
    ELSE GetOr(Head(rich_text), "plain_text", "") \o join_plain_text(Tail(rich_text))

\* block_entry without the check that the text is non-empty
block_entry_keep_empty(block) ==
    LET block_type == Get(block, "type")
        block_content == IF block_type # None /\ block_type[1] \in DOMAIN block
                         THEN block[block_type[1]]
                         ELSE EmptyDict
    IN  IF "rich_text" \in DOMAIN block_content
        THEN <<[type |-> block_type[1], text |-> join_plain_text(block_content.rich_text)]>>
        ELSE <<>>

\* one turn of the loop over the child blocks: what the block adds to
\* content_blocks
block_entry(block) ==
    LET block_type == Get(block, "type")
        block_content == IF block_type # None /\ block_type[1] \in DOMAIN block
                         THEN block[block_type[1]]
                         ELSE EmptyDict
    IN  IF "rich_text" \in DOMAIN block_content
        THEN LET text == join_plain_text(block_content.rich_text)
             IN  IF text # ""
                 THEN <<[type |-> block_type[1], text |-> text]>>
                 ELSE <<>>
        ELSE <<>>

\* the loop over the child blocks
RECURSIVE content_blocks(_)
content_blocks(blocks) ==
    IF blocks = <<>> THEN <<>>
    ELSE block_entry(Head(blocks)) \o content_blocks(Tail(blocks))

\* the loop of search_pages over the hits, from the results collected so far
RECURSIVE search_pages_results(_, _)
search_pages_results(pages, results) ==
    IF pages = <<>> THEN Return_(results)
    ELSE LET page == Head(pages)
             title == search_pages_title(page)
         IN  IF title.kind = "raise" THEN title
             ELSE search_pages_results(Tail(pages),
                    Append(results,
                           [id |-> page.id, title |-> title.value, url |-> page.url,
                            last_edited |-> GetOr(page, "last_edited_time", "Unknown")]))

\* the backquote character of the ID line, which a TLA+ string cannot hold
BackQuote == "'"

\* the loop of get_recent_pages over the hits, from the lines collected so far
RECURSIVE get_recent_pages_output(_, _)
get_recent_pages_output(pages, output) ==
    IF pages = <<>> THEN Return_(output)
    ELSE LET page == Head(pages)
             title == get_recent_pages_title(page)
         IN  IF title.kind = "raise" THEN title
             ELSE get_recent_pages_output(Tail(pages),
                    output \o <<"- **" \o title.value \o "**",
                                "  - ID: " \o BackQuote \o page.id \o BackQuote,
                                "  - URL: " \o page.url,
                                "  - Last edited: "
                                    \o GetOr(page, "last_edited_time", "Unknown") \o "\n">>)

\* "\n".join(output)
RECURSIVE join_lines(_)
join_lines(output) ==
    IF output = <<>> THEN ""
    ELSE IF Len(output) = 1 THEN Head(output)
    ELSE Head(output) \o "\n" \o join_lines(Tail(output))

-----------------------------------------------------------------------------
(* The except clauses that end each handler's try block, applied to how    *)
(* the block ended.                                                        *)

\* except APIResponseError as e / except Exception as e of a tool handler
api_error_envelope(e) == [success |-> FALSE, error |-> "Notion API error: " \o e.msg]
error_envelope(e) == [success |-> FALSE, error |-> e.msg]

create_page_except(o) ==
    IF o.kind = "return" THEN o
    ELSE IF o.exc.class = "APIResponseError"
         THEN Return_(api_error_envelope(o.exc))
         ELSE Return_(error_envelope(o.exc))

search_pages_except(o) ==
    IF o.kind = "return" THEN o
    ELSE IF o.exc.class = "APIResponseError"
         THEN Return_(api_error_envelope(o.exc))
         ELSE Return_(error_envelope(o.exc))

\* get_page_content_except with the generic clause catching the typed error
get_page_content_except_generic_first(o) ==
    IF o.kind = "return" THEN o ELSE Return_(error_envelope(o.exc))

get_page_content_except(o) ==
    IF o.kind = "return" THEN o
    ELSE IF o.exc.class = "APIResponseError"
         THEN Return_(api_error_envelope(o.exc))
         ELSE Return_(error_envelope(o.exc))

append_to_page_except(o) ==
    IF o.kind = "return" THEN o
    ELSE IF o.exc.class = "APIResponseError"
         THEN Return_(api_error_envelope(o.exc))
         ELSE Return_(error_envelope(o.exc))

update_page_except(o) ==
    IF o.kind = "return" THEN o
    ELSE IF o.exc.class = "APIResponseError"
         THEN Return_(api_error_envelope(o.exc))
         ELSE Return_(error_envelope(o.exc))

create_database_entry_except(o) ==
    IF o.kind = "return" THEN o
    ELSE IF o.exc.class = "APIResponseError"
         THEN Return_(api_error_envelope(o.exc))
         ELSE Return_(error_envelope(o.exc))

\* except Exception as e of get_recent_pages
get_recent_pages_except(o) ==
    IF o.kind = "return" THEN o
    ELSE Return_("Error retrieving recent pages: " \o o.exc.msg)

-----------------------------------------------------------------------------
(* The steps of an invocation.                                             *)

\* the handler is entered with its arguments
Enter(name, arguments) ==
    /\ pc = "idle"
    /\ handler' = name
    /\ args' = arguments
    /\ responses' = <<>>

\* the handler makes a remote call and waits for its answer
Issue(call) ==
    /\ calls' = Append(calls, call)
    /\ pc' = "awaiting"
    /\ outcome' = None

\* the handler ends: it returns a value, or an exception leaves it
Finish(o) ==
    /\ pc' = "done"
    /\ outcome' = Some(o)
    /\ UNCHANGED calls

\* the handler waits for the answer of its call `api`
Awaiting(name, api) ==
    /\ pc = "awaiting"
    /\ handler = name
    /\ calls[Len(calls)].api = api

\* the remote client answers the call with r
Answered(r) ==
    /\ responses' = Append(responses, r)
    /\ UNCHANGED <<handler, args>>

-----------------------------------------------------------------------------
(* create_page                                                             *)

create_page_properties(title) == title_property_payload(title)
create_page_children(content) == <<paragraph_block(content)>>

\* the page-creating call of create_page under the parent page `id`
create_page_call(id) ==
    Call("pages.create",
         [parent |-> [page_id |-> id],
          properties |-> create_page_properties(args'.title),
          children |-> create_page_children(args'.content)])

\* what create_page returns when the page is created
create_page_success(response) ==
    [success |-> TRUE, page_id |-> response.id, url |-> response.url,
     message |-> "Page '" \o args.title \o "' created successfully"]

\* what create_page returns when the fallback search finds no page
create_page_no_parent ==
    [error |-> "No parent page specified and no existing pages found. Please provide a parent_page_id."]

\* parent_given taking every parent_page_id as absent: the fallback search
\* always runs
parent_never_given(parent_page_id) == FALSE

\* the truth value of parent_page_id
parent_given(parent_page_id) == parent_page_id # None /\ parent_page_id # Some("")

create_page ==
    \E title \in Titles, content \in Contents, parent_page_id \in OptionalParents :
        /\ Enter("create_page",
                 [title |-> title, content |-> content, parent_page_id |-> parent_page_id])
        /\ calls = <<>>
        /\ IF parent_given(parent_page_id)
           THEN Issue(create_page_call(parent_page_id[1]))
           ELSE Issue(Call("search", [filter |-> PageFilter, page_size |-> 1]))

create_page_after_search ==
    /\ Awaiting("create_page", "search")
    /\ \E r \in FallbackSearchResponsesAnswers :
        /\ Answered(r)
        /\ IF r.kind = "raise"
           THEN Finish(create_page_except(r))
           ELSE IF GetTruthy(r.value, "results")
                THEN Issue(create_page_call(r.value.results[1].id))
                ELSE Finish(create_page_except(Return_(create_page_no_parent)))

create_page_after_create ==
    /\ Awaiting("create_page", "pages.create")
    /\ \E r \in CreatedPagesAnswers :
        /\ Answered(r)
        /\ IF r.kind = "raise"
           THEN Finish(create_page_except(r))
           ELSE Finish(create_page_except(Return_(create_page_success(r.value))))

-----------------------------------------------------------------------------
(* search_pages                                                            *)

search_pages_success(results) ==
    [success |-> TRUE, count |-> Len(results), results |-> results]

search_pages ==
    \E query \in Queries, page_size \in PageSizes :
        /\ Enter("search_pages", [query |-> query, page_size |-> page_size])
        /\ calls = <<>>
        /\ Issue(Call("search",
                      [query |-> query, filter |-> PageFilter, page_size |-> page_size]))

search_pages_after_search ==
    /\ Awaiting("search_pages", "search")
    /\ \E r \in SearchResponsesAnswers :
        /\ Answered(r)
        /\ IF r.kind = "raise"
           THEN Finish(search_pages_except(r))
           ELSE LET results == search_pages_results(GetOr(r.value, "results", <<>>), <<>>)
                IN  IF results.kind = "raise"
                    THEN Finish(search_pages_except(results))
                    ELSE Finish(search_pages_except(
                                    Return_(search_pages_success(results.value))))

-----------------------------------------------------------------------------
(* get_page_content                                                        *)

get_page_content_success(page, title, blocks_response) ==
    [success |-> TRUE, page_id |-> args.page_id, title |-> title, url |-> page.url,
     content |-> content_blocks(GetOr(blocks_response, "results", <<>>)),
     last_edited |-> Get(page, "last_edited_time")]

get_page_content ==
    \E page_id \in PageIds :
        /\ Enter("get_page_content", [page_id |-> page_id])
        /\ calls = <<>>
        /\ Issue(Call("pages.retrieve", [page_id |-> page_id]))

get_page_content_after_retrieve ==
    /\ Awaiting("get_page_content", "pages.retrieve")
    /\ \E r \in PageObjectsAnswers :
        /\ Answered(r)
        /\ IF r.kind = "raise"
           THEN Finish(get_page_content_except(r))
           ELSE LET title == get_page_content_title(r.value)
                IN  IF title.kind = "raise"
                    THEN Finish(get_page_content_except(title))
                    ELSE Issue(Call("blocks.children.list", [block_id |-> args.page_id]))

get_page_content_after_list ==
    /\ Awaiting("get_page_content", "blocks.children.list")
    /\ \E r \in BlockListResponsesAnswers :
        /\ Answered(r)
        /\ IF r.kind = "raise"
           THEN Finish(get_page_content_except(r))
           ELSE LET page == responses[1].value
                    title == get_page_content_title(page)
                IN  Finish(get_page_content_except(
                               Return_(get_page_content_success(page, title.value, r.value))))

-----------------------------------------------------------------------------
(* append_to_page                                                          *)

append_to_page_success ==
    [success |-> TRUE, message |-> "Content appended to page " \o args.page_id]

append_to_page ==
    \E page_id \in PageIds, content \in Contents :
        /\ Enter("append_to_page", [page_id |-> page_id, content |-> content])
        /\ calls = <<>>
        /\ Issue(Call("blocks.children.append",
                      [block_id |-> page_id, children |-> <<paragraph_block(content)>>]))

append_to_page_after_append ==
    /\ Awaiting("append_to_page", "blocks.children.append")
    /\ \E r \in AppendResponsesAnswers :
        /\ Answered(r)
        /\ IF r.kind = "raise"
           THEN Finish(append_to_page_except(r))
           ELSE Finish(append_to_page_except(Return_(append_to_page_success)))

-----------------------------------------------------------------------------
(* update_page                                                             *)

\* update_data testing the arguments' truth values instead of "is not None"
update_data_truthy(title, archived) ==
    LET with_title == IF title # None /\ title[1] # ""
                      THEN EmptyDict @@ ("properties" :> title_property_payload(title[1]))
                      ELSE EmptyDict
    IN  IF archived # None /\ archived[1]
        THEN with_title @@ ("archived" :> archived[1])
        ELSE with_title

\* the partial update built from the arguments that are not None
update_data(title, archived) ==
    LET with_title == IF title # None
                      THEN EmptyDict @@ ("properties" :> title_property_payload(title[1]))
                      ELSE EmptyDict
    IN  IF archived # None
        THEN with_title @@ ("archived" :> archived[1])
        ELSE with_title

update_page_no_parameters == [success |-> FALSE, error |-> "No update parameters provided"]

update_page_success(response) ==
    [success |-> TRUE, page_id |-> response.id, url |-> response.url,
     message |-> "Page updated successfully"]

update_page ==
    \E page_id \in PageIds, title \in OptionalTitles, archived \in OptionalFlags :
        /\ Enter("update_page", [page_id |-> page_id, title |-> title, archived |-> archived])
        /\ calls = <<>>
        /\ IF DOMAIN update_data(title, archived) = {}
           THEN Finish(update_page_except(Return_(update_page_no_parameters)))
           ELSE Issue(Call("pages.update",
                           ("page_id" :> page_id) @@ update_data(title, archived)))

update_page_after_update ==
    /\ Awaiting("update_page", "pages.update")
    /\ \E r \in CreatedPagesAnswers :
        /\ Answered(r)
        /\ IF r.kind = "raise"
           THEN Finish(update_page_except(r))
           ELSE Finish(update_page_except(Return_(update_page_success(r.value))))

-----------------------------------------------------------------------------
(* create_database_entry                                                   *)

create_database_entry_success(response) ==
    [success |-> TRUE, page_id |-> response.id, url |-> response.url,
     message |-> "Database entry created successfully"]

create_database_entry ==
    \E database_id \in PageIds, properties \in EntryProperties :
        /\ Enter("create_database_entry",
                 [database_id |-> database_id, properties |-> properties])
        /\ calls = <<>>
        /\ Issue(Call("pages.create",
                      [parent |-> [database_id |-> database_id], properties |-> properties]))

create_database_entry_after_create ==
    /\ Awaiting("create_database_entry", "pages.create")
    /\ \E r \in CreatedPagesAnswers :
        /\ Answered(r)
        /\ IF r.kind = "raise"
           THEN Finish(create_database_entry_except(r))
           ELSE Finish(create_database_entry_except(
                           Return_(create_database_entry_success(r.value))))

-----------------------------------------------------------------------------
(* get_recent_pages                                                        *)

RecentPagesSize == 20

get_recent_pages ==
    /\ Enter("get_recent_pages", EmptyDict)
    /\ calls = <<>>
    /\ Issue(Call("search",
                  [filter |-> PageFilter,
                   sort |-> [direction |-> "descending", timestamp |-> "last_edited_time"],
                   page_size |-> RecentPagesSize]))

get_recent_pages_after_search ==
    /\ Awaiting("get_recent_pages", "search")
    /\ \E r \in SearchResponsesAnswers :
        /\ Answered(r)
        /\ IF r.kind = "raise"
           THEN Finish(get_recent_pages_except(r))
           ELSE LET output == get_recent_pages_output(GetOr(r.value, "results", <<>>),
                                                      <<"# Recently Edited Pages\n">>)
                IN  IF output.kind = "raise"
                    THEN Finish(get_recent_pages_except(output))
                    ELSE Finish(get_recent_pages_except(Return_(join_lines(output.value))))

-----------------------------------------------------------------------------
(* The protocol adapter relays what the handler returned; nothing of the   *)
(* invocation is kept.                                                     *)

Relay ==
    /\ pc = "done"
    /\ pc' = "idle"
    /\ handler' = ""
    /\ args' = EmptyDict
    /\ calls' = <<>>
    /\ responses' = <<>>
    /\ outcome' = None

Init ==
    /\ pc = "idle"
    /\ handler = ""
    /\ args = EmptyDict
    /\ calls = <<>>
    /\ responses = <<>>
    /\ outcome = None

Next ==
    \/ create_page
    \/ create_page_after_search
    \/ create_page_after_create
    \/ search_pages
    \/ search_pages_after_search
    \/ get_page_content
    \/ get_page_content_after_retrieve
    \/ get_page_content_after_list
    \/ append_to_page
    \/ append_to_page_after_append
    \/ update_page
    \/ update_page_after_update
    \/ create_database_entry
    \/ create_database_entry_after_create
    \/ get_recent_pages
    \/ get_recent_pages_after_search
    \/ Relay

Spec == Init /\ [][Next]_vars

-----------------------------------------------------------------------------
(* Vocabulary of the properties.                                           *)

ToolHandlers == {"create_page", "search_pages", "get_page_content",
                 "append_to_page", "update_page", "create_database_entry"}

Done == pc = "done"
Returned == Done /\ outcome[1].kind = "return"
\* the value the handler returned
Result == outcome[1].value

IsApiError(r) == r.kind = "raise" /\ r.exc.class = "APIResponseError"

\* a failure envelope: exactly {success: False, error: <string>}
IsFailure(v) == DOMAIN v = {"success", "error"} /\ v.success = FALSE

\* the entries of a page's properties mapping that carry a title: typed
\* "title", with a non-empty title sequence
TitleEntries(page) ==
    IF "properties" \in DOMAIN page
    THEN {i \in DOMAIN page.properties :
            /\ page.properties[i][2].type = "title"
            /\ page.properties[i][2].title # <<>>}
    ELSE {}

\* the page has no title: no properties mapping, no property typed "title",
\* or only empty title sequences
HasNoTitle(page) == TitleEntries(page) = {}

\* a title-carrying entry of the page starts with a fragment without
\* plain_text, which the service's schema rules out
Malformed(page) ==
    \E i \in TitleEntries(page) : "plain_text" \notin DOMAIN page.properties[i][2].title[1]

\* the page's first title-carrying entry, in mapping order, is such an entry:
\* reading the title by a scan of the mapping fails
TitleScanFails(page) ==
    /\ TitleEntries(page) # {}
    /\ LET i == CHOOSE j \in TitleEntries(page) : \A k \in TitleEntries(page) : j <= k
       IN  "plain_text" \notin DOMAIN page.properties[i][2].title[1]

\* the page's title sits in an entry not named "title", and no entry named
\* "title" carries one
TitledElsewhere(page) ==
    /\ ~Malformed(page)
    /\ \E i \in TitleEntries(page) : page.properties[i][1] # "title"
    /\ \A i \in TitleEntries(page) : page.properties[i][1] # "title"

\* the first fragment's plain_text of that entry
TitleElsewhere(page) ==
    LET i == CHOOSE j \in TitleEntries(page) : page.properties[j][1] # "title"
    IN  page.properties[i][2].title[1].plain_text

\* the hits of the search response the handler received
Hits == GetOr(responses[1].value, "results", <<>>)

\* the text get_recent_pages returns for hits with the given titles
RECURSIVE Listing(_, _)
Listing(pages, titles) ==
    IF pages = <<>> THEN ""
    ELSE "\n- **" \o Head(titles) \o "**"
         \o "\n  - ID: " \o BackQuote \o Head(pages).id \o BackQuote
         \o "\n  - URL: " \o Head(pages).url
         \o "\n  - Last edited: "
         \o (IF "last_edited_time" \in DOMAIN Head(pages)
             THEN Head(pages).last_edited_time ELSE "Unknown")
         \o "\n" \o Listing(Tail(pages), Tail(titles))

-----------------------------------------------------------------------------
(* C1.  Every invocation of the six tool handlers returns one mapping with *)
(* a boolean success field and lets no exception out; get_recent_pages     *)
(* always returns a string.                                                *)

C1_EnvelopeAlways ==
    Done =>
        /\ outcome[1].kind = "return"
        /\ IF handler = "get_recent_pages"
           THEN Result \in STRING
           ELSE "success" \in DOMAIN Result /\ Result.success \in BOOLEAN

-----------------------------------------------------------------------------
(* C2.  create_page with parent_page_id = None whose fallback search       *)
(* returns an empty result set returns {success: False, error: ...} with   *)
(* an error that contains "parent", and never calls pages.create.          *)

EmptyFallbackSearch ==
    /\ Done
    /\ handler = "create_page"
    /\ args.parent_page_id = None
    /\ responses # <<>>
    /\ responses[1].kind = "return"
    /\ "results" \in DOMAIN responses[1].value
    /\ responses[1].value.results = <<>>

C2_NoParentFailure ==
    EmptyFallbackSearch =>
        /\ outcome[1].kind = "return"
        /\ "success" \in DOMAIN Result
        /\ Result.success = FALSE
        /\ "error" \in DOMAIN Result
        /\ Contains(Result.error, "parent")
        /\ \A i \in DOMAIN calls : calls[i].api # "pages.create"

-----------------------------------------------------------------------------
(* C3.  In the six tool handlers, when a remote call raises                *)
(* APIResponseError the handler returns {success: False, error: e} with e  *)
(* starting with "Notion API error:"; the error does not leave the         *)
(* handler.  This holds for every remote call, the fallback search of      *)
(* create_page and the block listing of get_page_content included.         *)

C3_ApiErrorEnveloped ==
    \A i \in DOMAIN responses :
        (handler \in ToolHandlers /\ IsApiError(responses[i])) =>
            /\ Done
            /\ i = Len(calls)
            /\ outcome[1].kind = "return"
            /\ IsFailure(Result)
            /\ StartsWith(Result.error, "Notion API error:")

C3_Witness ==
    /\ Done
    /\ handler = "get_page_content"
    /\ Len(responses) = 2
    /\ IsApiError(responses[2])

-----------------------------------------------------------------------------
(* C4.  update_page with title = None and archived = None returns a        *)
(* failure whose error contains "No update parameters" and makes no remote *)
(* call; with title or archived not None (title = "" and archived = False  *)
(* included) it makes exactly one pages.update call, whose payload holds   *)
(* the supplied fields and no others.                                      *)

C4_UpdatePage ==
    (handler = "update_page" /\ pc # "idle") =>
        IF args.title = None /\ args.archived = None
        THEN /\ calls = <<>>
             /\ Returned
             /\ IsFailure(Result)
             /\ Contains(Result.error, "No update parameters")
        ELSE /\ Len(calls) = 1
             /\ calls[1].api = "pages.update"
             /\ DOMAIN calls[1].payload =
                    {"page_id"}
                    \cup (IF args.title # None THEN {"properties"} ELSE {})
                    \cup (IF args.archived # None THEN {"archived"} ELSE {})
             /\ calls[1].payload.page_id = args.page_id
             /\ args.title # None =>
                    calls[1].payload.properties =
                        [title |-> [title |-> <<[text |-> [content |-> args.title[1]]]>>]]
             /\ args.archived # None => calls[1].payload.archived = args.archived[1]

C4_Witness ==
    /\ Returned
    /\ handler = "update_page"
    /\ args.title = Some("")
    /\ args.archived = Some(FALSE)
    /\ Len(calls) = 1
    /\ Result.success = TRUE

-----------------------------------------------------------------------------
(* C5.  For every positive page_size and every search response, one with   *)
(* more than page_size items included, a successful search_pages result    *)
(* has len(results) <= page_size and count = len(results).                 *)

C5_SearchCapped ==
    (Returned /\ handler = "search_pages" /\ Result.success = TRUE) =>
        /\ Len(Result.results) <= args.page_size
        /\ Result.count = Len(Result.results)

-----------------------------------------------------------------------------
(* C6.  Title extraction does not depend on the property's name: for a     *)
(* page whose title sits in an entry not named "title" (no entry named     *)
(* "title" carrying one), search_pages, get_page_content and               *)
(* get_recent_pages all report that entry's first fragment's plain_text.   *)

ElsewhereOrOwn(page) ==
    IF TitledElsewhere(page) THEN TitleElsewhere(page)
    ELSE get_recent_pages_title(page).value

C6_NameIndependentTitle ==
    /\ (Returned /\ handler = "search_pages" /\ Result.success = TRUE) =>
            \A i \in DOMAIN Hits :
                TitledElsewhere(Hits[i]) => Result.results[i].title = TitleElsewhere(Hits[i])
    /\ (Returned /\ handler = "get_page_content" /\ Result.success = TRUE) =>
            (TitledElsewhere(responses[1].value) =>
                Result.title = TitleElsewhere(responses[1].value))
    /\ (Returned /\ handler = "get_recent_pages" /\ responses[1].kind = "return"
            /\ \A i \in DOMAIN Hits : ~Malformed(Hits[i])) =>
            Result = "# Recently Edited Pages\n" \o Listing(Hits, [i \in DOMAIN Hits |-> ElsewhereOrOwn(Hits[i])])

-----------------------------------------------------------------------------
(* C7.  For a page without a properties mapping, without a property typed  *)
(* "title", or with an empty title sequence, search_pages,                 *)
(* get_page_content and get_recent_pages report the title "Untitled", and  *)
(* the operation succeeds: whenever its remote calls return and no other   *)
(* hit is malformed, the missing title makes no failure.                   *)

UntitledOrOwn(page) ==
    IF HasNoTitle(page) THEN "Untitled" ELSE get_recent_pages_title(page).value

C7_Untitled ==
    /\ (Done /\ handler = "search_pages" /\ responses[1].kind = "return"
            /\ \A i \in DOMAIN Hits : ~Malformed(Hits[i])) =>
            /\ outcome[1].kind = "return"
            /\ Result.success = TRUE
            /\ Len(Result.results) = Len(Hits)
            /\ \A i \in DOMAIN Hits :
                    HasNoTitle(Hits[i]) => Result.results[i].title = "Untitled"
    /\ (handler = "get_page_content" /\ responses # <<>>
            /\ responses[1].kind = "return" /\ HasNoTitle(responses[1].value)) =>
            /\ Len(calls) = 2
            /\ (Done /\ responses[2].kind = "return") =>
                    /\ outcome[1].kind = "return"
                    /\ Result.success = TRUE
                    /\ Result.title = "Untitled"
    /\ (Done /\ handler = "get_recent_pages" /\ responses[1].kind = "return"
            /\ \A i \in DOMAIN Hits : ~Malformed(Hits[i])) =>
            /\ outcome[1].kind = "return"
            /\ Result = "# Recently Edited Pages\n" \o Listing(Hits, [i \in DOMAIN Hits |-> UntitledOrOwn(Hits[i])])

C7_Witness ==
    /\ Returned
    /\ handler = "search_pages"
    /\ Result.success = TRUE
    /\ Len(Hits) = 2
    /\ "properties" \notin DOMAIN Hits[1]
    /\ "properties" \in DOMAIN Hits[2]
    /\ HasKey(Hits[2].properties, "title")
    /\ HasNoTitle(Hits[2])
    /\ Result.results[1].title = "Untitled"
    /\ Result.results[2].title = "Untitled"

-----------------------------------------------------------------------------
(* C8.  The content of a successful get_page_content result is the         *)
(* order-preserving subsequence of the child blocks whose type-named       *)
(* sub-object has a rich_text field with non-empty concatenated            *)
(* plain_text; each entry is {type, text}, text being the concatenation of *)
(* all fragments' plain_text in order, and no entry has an empty text.     *)

\* the plain_text of the first n fragments, concatenated left to right
RECURSIVE PlainTextUpTo(_, _)
PlainTextUpTo(rich_text, n) ==
    IF n = 0 THEN ""
    ELSE PlainTextUpTo(rich_text, n - 1)
         \o (IF "plain_text" \in DOMAIN rich_text[n] THEN rich_text[n].plain_text ELSE "")

BlockText(block) == PlainTextUpTo(block[block.type].rich_text, Len(block[block.type].rich_text))

HasText(block) ==
    /\ "type" \in DOMAIN block
    /\ block.type \in DOMAIN block
    /\ "rich_text" \in DOMAIN block[block.type]
    /\ BlockText(block) # ""

\* the child blocks the block-listing call returned
Blocks == GetOr(responses[2].value, "results", <<>>)

C8_ContentBlocks ==
    (Returned /\ handler = "get_page_content" /\ Result.success = TRUE) =>
        LET kept == SelectSeq(Blocks, HasText)
        IN  /\ Result.content =
                    [i \in DOMAIN kept |-> [type |-> kept[i].type, text |-> BlockText(kept[i])]]
            /\ \A i \in DOMAIN Result.content : Result.content[i].text # ""

C8_Witness ==
    /\ Returned
    /\ handler = "get_page_content"
    /\ Result.success = TRUE
    /\ Len(Blocks) = 3
    /\ HasText(Blocks[1])
    /\ "type" \in DOMAIN Blocks[2]
    /\ Blocks[2].type \in DOMAIN Blocks[2]
    /\ "rich_text" \in DOMAIN Blocks[2][Blocks[2].type]
    /\ ~HasText(Blocks[2])
    /\ HasText(Blocks[3])
    /\ Blocks[1] # Blocks[3]
    /\ Len(Result.content) = 2

-----------------------------------------------------------------------------
(* C9.  As claimed: in one invocation every handler makes at most one      *)
(* remote call, get_page_content at most two, on every path, create_page   *)
(* without a parent_page_id included.                                      *)

C9_AtMostOneCall ==
    Len(calls) <= (IF handler = "get_page_content" THEN 2 ELSE 1)

(* C9, amended.  In one invocation every handler makes at most one remote  *)
(* call, except get_page_content and create_page called without a         *)
(* parent_page_id (None or ""), which make at most two.                    *)

C9_CallBudget ==
    Len(calls) <=
        (IF handler = "get_page_content" THEN 2
         ELSE IF handler = "create_page" /\ args.parent_page_id \in {None, Some("")} THEN 2
         ELSE 1)

C9_Witness ==
    /\ Returned
    /\ handler = "create_page"
    /\ args.parent_page_id = None
    /\ Len(calls) = 2
    /\ calls[1].api = "search"
    /\ calls[2].api = "pages.create"
    /\ Result.success = TRUE

-----------------------------------------------------------------------------
(* C10.  In get_page_content the pages.retrieve call comes before the      *)
(* blocks.children.list call, the two are never outstanding together, and  *)
(* when the retrieve call fails, or reading the title of its result fails, *)
(* the block-listing call is not made.                                     *)

RetrieveFailed ==
    /\ responses # <<>>
    /\ \/ responses[1].kind = "raise"
       \/ TitleScanFails(responses[1].value)

C10_RetrieveThenList ==
    handler = "get_page_content" =>
        /\ Len(calls) \in 1..2
        /\ calls[1].api = "pages.retrieve"
        /\ Len(calls) = 2 =>
                /\ calls[2].api = "blocks.children.list"
                /\ Len(responses) >= 1
                /\ responses[1].kind = "return"
        /\ Len(calls) - Len(responses) \in 0..1
        /\ RetrieveFailed => (Done /\ Len(calls) = 1)

C10_Witness ==
    /\ Done
    /\ handler = "get_page_content"
    /\ responses[1].kind = "return"
    /\ TitleScanFails(responses[1].value)
    /\ Len(calls) = 1
    /\ IsFailure(Result)

====
